---------------------------- MODULE Spec2Model ----------------------------
(***************************************************************************)
(* Model of the price catalog service: the background ingestion loop of    *)
(* main.py (background_parser_async, add_item, clean_price), the markup    *)
(* extractor of parser.py (get_page, process_page) and the CRUD handlers   *)
(* of main.py over the single table Prices(id, name, cost).                *)
(*                                                                         *)
(* Strings that the code inspects character by character (price texts)     *)
(* are sequences of one-character strings.  A request body is the set of   *)
(* fields the client sent (pydantic's fields-set) plus their values.       *)
(*                                                                         *)
(* The handlers take the table model Prices as request body: a table       *)
(* model is built without field validation, so a body may carry any        *)
(* subset of id, name and cost, and any integer as id or cost.  The        *)
(* background task awaits only before a pass (run_in_threadpool) and       *)
(* after it (asyncio.sleep); the fetch and the upserts of a pass run in    *)
(* one stretch on the event loop, as does every handler.                   *)
(***************************************************************************)
EXTENDS Integers, Sequences, FiniteSets, TLC

(* ------------------------------ bounds --------------------------------- *)
MaxItems == 2
MaxPasses == 2
MaxRequests == 2
MaxRows == 3
MaxLen == 3

Titles == {"a", "b"}
PriceTexts == { <<"1", ".", "2">>, <<"x">> }
BodyIds == {2}
BodyNames == {"a"}
BodyCosts == {-1}
PathIds == {1, 2}
HttpStatuses == {200, 503}
RawChars == {"0", "1", "2", ".", " ", "x"}

(* ------------------------------ state ---------------------------------- *)
VARIABLES
    table,      \* rows of the Prices table: set of [id, name, cost]
    pc,         \* position of the background task
    page,       \* response held by the running generator: [status, names, prices]
    idx,        \* index of the next element pair process_page will read
    passes,     \* ingestion passes started
    requests,   \* API requests served
    last,       \* the API request answered by the step just taken, if any
    hist,       \* history of the ingestion passes
    used,       \* which of the API operations create and update have been invoked
    gone,       \* ids deleted through the API and not created since
    made,       \* records returned by POST create, not updated or deleted since
    exc,        \* exception that ended the background task, "none" while it lives
    call        \* log of the calls made in SpecFn: clean_price and read_prices

vars == <<table, pc, page, idx, passes, requests, last, hist, used, gone, made, exc, call>>

(* ------------------------------ values --------------------------------- *)
Fields == {"id", "name", "cost"}

Digits == {"0", "1", "2", "3", "4", "5", "6", "7", "8", "9"}

DigitVal(c) ==
    CASE c = "0" -> 0 [] c = "1" -> 1 [] c = "2" -> 2 [] c = "3" -> 3
      [] c = "4" -> 4 [] c = "5" -> 5 [] c = "6" -> 6 [] c = "7" -> 7
      [] c = "8" -> 8 [] c = "9" -> 9

SeqsUpTo(S, n) == UNION { [1..k -> S] : k \in 0..n }

\* what requests.get can return: any status with any body; process_page
\* reads response.content without looking at the status
Pages ==
    [status : HttpStatuses,
     names : SeqsUpTo(Titles, MaxItems),
     prices : SeqsUpTo(PriceTexts, MaxItems)]

EmptyPage == [status |-> 200, names |-> <<>>, prices |-> <<>>]

\* the name and price elements find_all locates in a response body
Markup(pg) == [names |-> pg.names, prices |-> pg.prices]

Bodies ==
    { [set |-> s,
       id |-> IF "id" \in s THEN i ELSE 0,
       name |-> IF "name" \in s THEN n ELSE "",
       cost |-> IF "cost" \in s THEN c ELSE 0] :
         s \in SUBSET Fields, i \in BodyIds, n \in BodyNames, c \in BodyCosts }

NoBody == [set |-> {}, id |-> 0, name |-> "", cost |-> 0]

(* ------------------------------ the store ------------------------------ *)
Ids(tbl) == { r.id : r \in tbl }

MaxOf(S) == CHOOSE m \in S : \A x \in S : x <= m

\* INTEGER PRIMARY KEY without AUTOINCREMENT: the store picks max(id) + 1
NextId(tbl) == IF tbl = {} THEN 1 ELSE MaxOf(Ids(tbl)) + 1

\* session.get(Prices, item_id): the row with that primary key, or none
Get(tbl, id) == { r \in tbl : r.id = id }

\* select(Prices).where(Prices.name == title)
ByName(tbl, title) == { r \in tbl : r.name = title }

(* --------------------------- price normalizer -------------------------- *)
RECURSIVE FilterDigits(_)
FilterDigits(s) ==
    IF s = <<>> THEN <<>>
    ELSE IF Head(s) \in Digits THEN <<Head(s)>> \o FilterDigits(Tail(s))
    ELSE FilterDigits(Tail(s))

RECURSIVE ParseInt(_)
ParseInt(s) ==
    IF s = <<>> THEN 0
    ELSE 10 * ParseInt(SubSeq(s, 1, Len(s) - 1)) + DigitVal(s[Len(s)])

\* clean_price with a default instead of the ValueError of int("")
clean_price_default(price_str) ==
    LET cleaned_price == FilterDigits(price_str)
    IN  [ok |-> TRUE, value |-> ParseInt(cleaned_price)]

\* clean_price: re.sub(r"\D", "", s) then int(); int("") raises ValueError
clean_price(price_str) ==
    LET cleaned_price == FilterDigits(price_str)
    IN  IF cleaned_price = <<>>
        THEN [ok |-> FALSE, value |-> 0]
        ELSE [ok |-> TRUE, value |-> ParseInt(cleaned_price)]

(* ------------------------------ ingestion ------------------------------ *)
\* add_item without the lookup: every scraped item is inserted
add_item_nolookup(tbl, title, price) ==
    tbl \cup { [id |-> NextId(tbl), name |-> title, cost |-> price] }

\* add_item as an update-in-place upsert: an existing row takes the new price
add_item_upsert(tbl, title, price) ==
    IF ByName(tbl, title) = {}
    THEN tbl \cup { [id |-> NextId(tbl), name |-> title, cost |-> price] }
    ELSE { IF r.name = title THEN [r EXCEPT !.cost = price] ELSE r : r \in tbl }

\* add_item: look the title up by name, insert only when no row carries it
add_item(tbl, title, price) ==
    IF ByName(tbl, title) = {}
    THEN tbl \cup { [id |-> NextId(tbl), name |-> title, cost |-> price] }
    ELSE tbl

\* the price text process_page yields for the i-th element pair
ItemPrice(pg, i) == FilterDigits(pg.prices[i])

\* body of the for loop of background_parser_async for one yielded item
ProcessItem(tbl, title, price_str) ==
    LET price == clean_price(price_str)
    IN  IF price.ok THEN add_item(tbl, title, price.value) ELSE tbl


(* ------------------------------ API handlers --------------------------- *)
Response(status, result, tbl) == [status |-> status, result |-> result, tbl |-> tbl]

\* read_item: GET /prices/{item_id}
read_item(tbl, item_id) ==
    LET price == Get(tbl, item_id)
    IN  IF price = {} THEN Response(404, {}, tbl) ELSE Response(200, price, tbl)

\* the patch without exclude_unset: unset fields are dumped too
Patch_dump_all(r, data) ==
    [id |-> IF "id" \in data.set THEN data.id ELSE r.id,
     name |-> data.name,
     cost |-> data.cost]

\* sqlmodel_update(model_dump(exclude_unset=True)): only the fields the
\* client sent are assigned, the primary key included
Patch(r, data) ==
    [id |-> IF "id" \in data.set THEN data.id ELSE r.id,
     name |-> IF "name" \in data.set THEN data.name ELSE r.name,
     cost |-> IF "cost" \in data.set THEN data.cost ELSE r.cost]

\* update_item without the not-found check: a missing row is created
update_item_merge(tbl, item_id, data) ==
    LET price_db == Get(tbl, item_id)
        old == IF price_db = {}
               THEN [id |-> item_id, name |-> "", cost |-> 0]
               ELSE CHOOSE r \in price_db : TRUE
        new == Patch(old, data)
    IN  IF new.id # old.id /\ new.id \in Ids(tbl)
        THEN Response(500, {}, tbl)
        ELSE Response(200, {new}, (tbl \ price_db) \cup {new})

\* update_item: PUT /prices/{item_id}; the commit is rejected (IntegrityError,
\* a 500) when the patched primary key belongs to another row
update_item(tbl, item_id, data) ==
    LET price_db == Get(tbl, item_id)
    IN  IF price_db = {} THEN Response(404, {}, tbl)
        ELSE LET old == CHOOSE r \in price_db : TRUE
                 new == Patch(old, data)
             IN  IF new.id # old.id /\ new.id \in Ids(tbl)
                 THEN Response(500, {}, tbl)
                 ELSE Response(200, {new}, (tbl \ {old}) \cup {new})

\* create_item: POST /prices/create; the body is the table model itself, so
\* the row takes the id of the body when the client sent one. The commit is
\* rejected (IntegrityError, a 500) for a missing NOT NULL column or a
\* primary key that is already in the table
create_item(tbl, item) ==
    IF "name" \notin item.set \/ "cost" \notin item.set
    THEN Response(500, {}, tbl)
    ELSE IF "id" \in item.set /\ item.id \in Ids(tbl)
    THEN Response(500, {}, tbl)
    ELSE LET new == [id |-> IF "id" \in item.set THEN item.id ELSE NextId(tbl),
                     name |-> item.name, cost |-> item.cost]
         IN  Response(200, {new}, tbl \cup {new})

\* the rows in the order of a scan of the table, which is the order of
\* the primary key
RECURSIVE SortedRows(_)
SortedRows(tbl) ==
    IF tbl = {} THEN <<>>
    ELSE LET first == CHOOSE r \in tbl : \A q \in tbl : r.id <= q.id
         IN  <<first>> \o SortedRows(tbl \ {first})

\* read_prices with the limit taken as an inclusive upper index
read_prices_inclusive(tbl, offset, limit) ==
    LET rows == SortedRows(tbl)
        skip == IF offset < 0 THEN 0 ELSE offset
        stop == IF limit < 0 \/ skip + limit + 1 > Len(rows)
                THEN Len(rows) ELSE skip + limit + 1
    IN  IF skip >= Len(rows) THEN <<>> ELSE SubSeq(rows, skip + 1, stop)

\* read_prices: GET /prices, select(Prices).offset(offset).limit(limit);
\* the store reads a negative offset as 0 and a negative limit as no limit
read_prices(tbl, offset, limit) ==
    LET rows == SortedRows(tbl)
        skip == IF offset < 0 THEN 0 ELSE offset
        stop == IF limit < 0 \/ skip + limit > Len(rows)
                THEN Len(rows) ELSE skip + limit
    IN  IF skip >= Len(rows) THEN <<>> ELSE SubSeq(rows, skip + 1, stop)

\* delete_item deleting by the name of the row instead of its key
delete_item_by_name(tbl, item_id) ==
    LET price == Get(tbl, item_id)
    IN  IF price = {} THEN Response(404, {}, tbl)
        ELSE Response(200, {}, { r \in tbl : \A d \in price : r.name # d.name })

\* delete_item: DELETE /prices/{item_id}
delete_item(tbl, item_id) ==
    LET price == Get(tbl, item_id)
    IN  IF price = {} THEN Response(404, {}, tbl)
        ELSE Response(200, {}, tbl \ price)

(* ------------------------------ initial state -------------------------- *)
NoRequest == [op |-> "none", id |-> 0, body |-> NoBody, status |-> 0, result |-> {}]

\* hist remembers the last completed pass (its markup and the table it left)
\* for as long as no API write has happened since; same tells that the
\* running pass fetched that markup again
NoHistory == [quiet |-> FALSE, markup |-> Markup(EmptyPage), tbl |-> {}, same |-> FALSE]

Init ==
    /\ table = {}
    /\ pc = "created"
    /\ page = EmptyPage
    /\ idx = 1
    /\ passes = 0
    /\ requests = 0
    /\ last = NoRequest
    /\ hist = NoHistory
    /\ used = {}
    /\ gone = {}
    /\ made = {}
    /\ exc = "none"
    /\ call = <<>>

(* ------------------------------ ingestion loop ------------------------- *)
\* no API response is waiting to be sent
Idle == last = NoRequest

\* startup_event: the task created in lifespan runs up to its first await,
\* run_in_threadpool(get_page), which only builds the generator
StartTask ==
    /\ Idle
    /\ pc = "created"
    /\ pc' = "threadpool"
    /\ UNCHANGED <<table, page, idx, passes, requests, last, hist, used, gone, made, exc, call>>

\* first next() of the generator: requests.get returns the markup
Fetch ==
    /\ Idle
    /\ pc = "threadpool"
    /\ \E pg \in Pages :
          /\ page' = pg
          /\ hist' = IF hist.quiet /\ Markup(pg) = hist.markup
                      THEN [hist EXCEPT !.same = TRUE]
                      ELSE NoHistory
    /\ pc' = "iterating"
    /\ idx' = 1
    /\ passes' = passes + 1
    /\ UNCHANGED <<table, requests, last, used, gone, made, exc, call>>

\* the fetch failure caught and logged: the loop sleeps and tries again
FetchFail_caught ==
    /\ Idle
    /\ pc = "threadpool"
    /\ pc' = "sleeping"
    /\ passes' = passes + 1
    /\ hist' = NoHistory
    /\ UNCHANGED <<table, page, idx, requests, last, used, gone, made, exc, call>>

\* requests.get raises: nothing in background_parser_async catches it
FetchFail ==
    /\ Idle
    /\ pc = "threadpool"
    /\ pc' = "dead"
    /\ exc' = "ConnectionError"
    /\ passes' = passes + 1
    /\ hist' = NoHistory
    /\ UNCHANGED <<table, page, idx, requests, last, used, gone, made, call>>

\* one iteration of "for item in items": process_page builds the item from
\* the idx-th name and price elements, the loop normalizes and upserts it
IngestItem ==
    /\ pc = "iterating"
    /\ idx <= Len(page.names)
    /\ idx <= Len(page.prices)
    /\ table' = ProcessItem(table, page.names[idx], ItemPrice(page, idx))
    /\ idx' = idx + 1
    /\ gone' = gone \ Ids(table' \ table)
    /\ UNCHANGED <<pc, page, passes, requests, last, hist, used, made, exc, call>>

\* products_prices[i] with fewer price elements than name elements raises
\* IndexError inside the generator; only ValueError is caught
IngestIndexError ==
    /\ pc = "iterating"
    /\ idx <= Len(page.names)
    /\ idx > Len(page.prices)
    /\ pc' = "dead"
    /\ exc' = "IndexError"
    /\ page' = EmptyPage
    /\ idx' = 1
    /\ hist' = NoHistory
    /\ UNCHANGED <<table, passes, requests, last, used, gone, made, call>>

\* the generator is exhausted: the session closes and the task sleeps
EndPass ==
    /\ pc = "iterating"
    /\ idx > Len(page.names)
    /\ pc' = "sleeping"
    /\ hist' = [quiet |-> TRUE, markup |-> Markup(page), tbl |-> table, same |-> FALSE]
    /\ page' = EmptyPage
    /\ idx' = 1
    /\ UNCHANGED <<table, passes, requests, last, used, gone, made, exc, call>>

\* asyncio.sleep(12 * 60 * 60) returns and the while loop starts over
Wake ==
    /\ Idle
    /\ pc = "sleeping"
    /\ passes < MaxPasses
    /\ pc' = "threadpool"
    /\ UNCHANGED <<table, page, idx, passes, requests, last, hist, used, gone, made, exc, call>>

(* ------------------------------ API requests --------------------------- *)
\* the handlers are coroutines without an await: each runs to completion on
\* the event loop, and none runs while the task is inside its for loop
Serving ==
    /\ Idle
    /\ pc \in {"threadpool", "sleeping", "dead"}
    /\ requests < MaxRequests

Wrote(resp) == resp.tbl # table

Record(op, id, body, resp) ==
    /\ last' = [op |-> op, id |-> id, body |-> body,
                status |-> resp.status, result |-> resp.result]
    /\ table' = resp.tbl
    /\ requests' = requests + 1
    /\ used' = used \cup ({op} \cap {"create", "update"})
    /\ hist' = IF Wrote(resp) THEN NoHistory ELSE hist
    /\ UNCHANGED <<pc, page, idx, passes, exc, call>>

ApiRead ==
    /\ Serving
    /\ \E id \in PathIds :
          /\ Record("read", id, NoBody, read_item(table, id))
          /\ UNCHANGED <<gone, made>>

ApiUpdate ==
    /\ Serving
    /\ \E id \in PathIds, data \in Bodies :
          LET resp == update_item(table, id, data)
          IN  /\ Record("update", id, data, resp)
              /\ made' = IF resp.status = 200 THEN { r \in made : r.id # id } ELSE made
              /\ UNCHANGED gone

ApiCreate ==
    /\ Serving
    /\ \E item \in Bodies :
          LET resp == create_item(table, item)
          IN  /\ Record("create", 0, item, resp)
              /\ made' = IF resp.status = 200 THEN made \cup resp.result ELSE made
              /\ gone' = gone \ Ids(resp.result)

ApiDelete ==
    /\ Serving
    /\ \E id \in PathIds :
          LET resp == delete_item(table, id)
          IN  /\ Record("delete", id, NoBody, resp)
              /\ made' = IF resp.status = 200 THEN { r \in made : r.id # id } ELSE made
              /\ gone' = IF resp.status = 200 THEN gone \cup {id} ELSE gone

\* the handler has returned: the response is serialized and sent
Respond ==
    /\ last # NoRequest
    /\ last' = NoRequest
    /\ UNCHANGED <<table, pc, page, idx, passes, requests, hist, used, gone, made, exc, call>>

Next ==
    \/ StartTask
    \/ Fetch
    \/ FetchFail
    \/ IngestItem
    \/ IngestIndexError
    \/ EndPass
    \/ Wake
    \/ ApiRead
    \/ ApiUpdate
    \/ ApiCreate
    \/ ApiDelete
    \/ Respond

Spec == Init /\ [][Next]_vars

(* --------------------- calls on a table that does not change ----------- *)
\* tables the service can hold: distinct primary keys, with gaps
ListTables ==
    { { [id |-> i, name |-> "a", cost |-> 12] : i \in S } : S \in SUBSET (1..MaxRows) }

ListArgs == -1..MaxRows

RawPrices == SeqsUpTo(RawChars, MaxLen)

InitFn ==
    /\ table \in ListTables
    /\ pc = "sleeping"
    /\ page = EmptyPage
    /\ idx = 1
    /\ passes = 1
    /\ requests = 0
    /\ last = NoRequest
    /\ hist = NoHistory
    /\ used = {}
    /\ gone = {}
    /\ made = {}
    /\ exc = "none"
    /\ call = <<>>

\* the loop normalizes the price text of one item: clean_price on the text
\* of the element (direct) and on the text process_page yields (scraped)
CallCleanPrice ==
    /\ call = <<>>
    /\ \E raw \in RawPrices :
          call' = << [fn |-> "clean_price", raw |-> raw,
                      direct |-> clean_price(raw),
                      scraped |-> clean_price(FilterDigits(raw))] >>
    /\ UNCHANGED <<table, pc, page, idx, passes, requests, last, hist, used, gone, made, exc>>

\* a client reads a page of the list; at most two reads are logged
CallReadPrices ==
    /\ Len(call) < 2
    /\ \A i \in 1..Len(call) : call[i].fn = "read_prices"
    /\ \E offset \in ListArgs, limit \in ListArgs :
          call' = Append(call, [fn |-> "read_prices", offset |-> offset, limit |-> limit,
                                rows |-> read_prices(table, offset, limit)])
    /\ UNCHANGED <<table, pc, page, idx, passes, requests, last, hist, used, gone, made, exc>>

NextFn ==
    \/ CallCleanPrice
    \/ CallReadPrices

SpecFn == InitFn /\ [][NextFn]_vars

(* ------------------------------ properties ----------------------------- *)
NameUnique(tbl) == \A r1, r2 \in tbl : r1.name = r2.name => r1 = r2

\* the step just taken answered an API request
ApiStep(op) == last = NoRequest /\ last'.op = op

\* C1: as long as neither API create nor API update has been invoked, the
\* table holds at most one record per name, also when a title occurs several
\* times in one pass or in successive passes
C1_IngestionNamesUnique == used = {} => NameUnique(table)

\* a pass has processed the same title twice, both times with a valid price
C1_Witness ==
    /\ used = {}
    /\ pc = "iterating"
    /\ idx = 3
    /\ Len(page.prices) >= 2
    /\ page.names[1] = page.names[2]
    /\ clean_price(ItemPrice(page, 1)).ok
    /\ clean_price(ItemPrice(page, 2)).ok
    /\ Cardinality(table) = 1

\* C2: an upsert step of an ingestion pass leaves every record that was in
\* the table with the same id, name and cost, and adds at most one record
C2_IngestionOnlyAdds ==
    [][IngestItem => /\ \A r \in table : r \in table'
                     /\ Cardinality(table' \ table) <= 1]_vars

\* the item just processed carries a valid price that differs from the cost
\* stored under its name
C2_Witness ==
    /\ pc = "iterating"
    /\ idx > 1
    /\ idx - 1 <= Len(page.prices)
    /\ LET price == clean_price(ItemPrice(page, idx - 1))
       IN  /\ price.ok
           /\ \E r \in table : r.name = page.names[idx - 1] /\ r.cost # price.value

\* C3: when a pass over the markup of the previous completed pass ends with
\* no API write in between, the table equals the table the previous pass left
C3_PassIdempotent ==
    (pc = "iterating" /\ idx > Len(page.names) /\ hist.same) => table = hist.tbl

\* a second pass over unchanged markup with a record to keep has ended
C3_Witness ==
    /\ pc = "iterating"
    /\ idx > Len(page.names)
    /\ hist.same
    /\ Len(page.names) = 2
    /\ Len(page.prices) = 2
    /\ table # {}

\* C4: POST create of a record (name and cost given) whose name is already in
\* the table succeeds and the number of records with that name grows by one
C4_CreateDuplicateSucceeds ==
    [][(/\ ApiStep("create")
        /\ {"name", "cost"} \subseteq last'.body.set
        /\ ByName(table, last'.body.name) # {})
       => /\ last'.status = 200
          /\ Cardinality(ByName(table', last'.body.name))
               = Cardinality(ByName(table, last'.body.name)) + 1]_vars

\* C5: PUT on an existing id leaves every other record unchanged and every
\* field absent from the body at its previous value; when the request
\* succeeds the fields present in the body hold the values of the body
C5_PartialPatch ==
    [][(ApiStep("update") /\ Get(table, last'.id) # {})
       => LET old == CHOOSE r \in table : r.id = last'.id
              data == last'.body
          IN  \E new \in table' :
                 /\ table' = (table \ {old}) \cup {new}
                 /\ "id" \notin data.set => new.id = old.id
                 /\ "name" \notin data.set => new.name = old.name
                 /\ "cost" \notin data.set => new.cost = old.cost
                 /\ last'.status = 200 =>
                       /\ "id" \in data.set => new.id = data.id
                       /\ "name" \in data.set => new.name = data.name
                       /\ "cost" \in data.set => new.cost = data.cost
                       /\ last'.result = {new}
                 /\ last'.status # 200 => new = old]_vars

\* a PUT carrying only cost has succeeded on a table with another record
C5_Witness ==
    /\ last.op = "update"
    /\ last.status = 200
    /\ last.body.set = {"cost"}
    /\ Cardinality(table) >= 2
    /\ \E r \in last.result : r.name \in Titles /\ r.cost = last.body.cost

\* C6: GET, PUT and DELETE on an id that is not in the table answer 404 and
\* leave the table as it was
C6_NotFound ==
    [][((ApiStep("read") \/ ApiStep("update") \/ ApiStep("delete"))
        /\ last'.id \notin Ids(table))
       => last'.status = 404 /\ table' = table]_vars

\* a PUT with a non-empty body was answered 404 on a non-empty table
C6_Witness ==
    /\ last.op = "update"
    /\ last.status = 404
    /\ last.body.set # {}
    /\ table # {}

\* C7: an id deleted through the API, with no record created since, is
\* answered 404 by GET
C7_DeletedStaysGone == \A id \in gone : read_item(table, id).status = 404

\* C8: a record returned by POST create, with no update or delete of its id
\* since, is what GET of its id returns
C8_CreateReadRoundTrip ==
    \A r \in made : LET resp == read_item(table, r.id)
                    IN  resp.status = 200 /\ resp.result = {r}

\* a GET has returned a record that POST create returned before
C8_Witness ==
    /\ last.op = "read"
    /\ last.status = 200
    /\ last.result # {}
    /\ last.result \subseteq made

\* C9: every record created by ingestion or by POST create receives the id
\* the store chooses, which no record of the table carries
C9_StoreAssignsIds ==
    [][(IngestItem \/ (ApiStep("create") /\ last'.status = 200))
       => \A r \in table' \ table : r.id = NextId(table) /\ r.id \notin Ids(table)]_vars

\* C10: every record of the table has a non-negative cost
C10_CostNonNegative == \A r \in table : r.cost >= 0

\* C11: a pass ends when the extractor has yielded min(n, p) items for n
\* name elements and p price elements, and it ends without an error
C11_ExtractorTruncates ==
    [][(pc = "iterating" /\ pc' # "iterating")
       => /\ pc' = "sleeping"
          /\ exc' = "none"
          /\ LET n == Len(page.names)
                 p == Len(page.prices)
             IN  idx - 1 = IF n <= p THEN n ELSE p]_vars

\* the decimal digits of a string and the integer they spell, by position
DigitPositions(s) == { i \in 1..Len(s) : s[i] \in Digits }

RECURSIVE Pow10(_)
Pow10(n) == IF n = 0 THEN 1 ELSE 10 * Pow10(n - 1)

RECURSIVE PositionalSum(_, _)
PositionalSum(s, P) ==
    IF P = {} THEN 0
    ELSE LET i == CHOOSE x \in P : TRUE
         IN  DigitVal(s[i]) * Pow10(Cardinality({ j \in DigitPositions(s) : j > i }))
               + PositionalSum(s, P \ {i})

\* C12: the normalizer fails exactly when the string has no digit, and
\* otherwise returns the non-negative integer its digits spell in order,
\* every other character dropped; the text the extractor yields gives the same
C12_Normalizer ==
    \A i \in 1..Len(call) :
       call[i].fn = "clean_price" =>
          LET raw == call[i].raw
              res == call[i].direct
          IN  /\ res.ok <=> DigitPositions(raw) # {}
              /\ res.ok => /\ res.value = PositionalSum(raw, DigitPositions(raw))
                           /\ res.value >= 0
              /\ call[i].scraped = res

\* a price with a decimal point has been normalized to its concatenated digits
C12_Witness ==
    /\ Len(call) = 1
    /\ call[1].fn = "clean_price"
    /\ call[1].raw = <<"1", ".", "2">>
    /\ call[1].direct = [ok |-> TRUE, value |-> 12]

RowIds(rows) == { rows[i].id : i \in 1..Len(rows) }

C14_FailedFetchInsertsNothing ==
    [][(pc = "iterating" /\ page.status # 200) => table' = table]_vars

\* normalizing the price of the i-th item of the page fails
NormFailure(pg, i) ==
    /\ i <= Len(pg.names)
    /\ i <= Len(pg.prices)
    /\ ~clean_price(ItemPrice(pg, i)).ok

\* C15: an item whose price has no digit changes nothing and the pass goes
\* on with the next item; after such a failure every item with a valid price
\* and a new name is inserted and the pass ends in the sleep
C15_NormalizationFailureSkipped ==
    [][pc = "iterating" =>
         /\ NormFailure(page, idx)
              => (table' = table /\ pc' = "iterating" /\ idx' = idx + 1)
         /\ (\E j \in 1..(idx - 1) : NormFailure(page, j))
              => /\ pc' \in {"iterating", "sleeping"}
                 /\ exc' = "none"
                 /\ (/\ idx <= Len(page.names)
                     /\ idx <= Len(page.prices)
                     /\ clean_price(ItemPrice(page, idx)).ok
                     /\ ByName(table, page.names[idx]) = {})
                    => \E r \in table' \ table :
                          /\ r.name = page.names[idx]
                          /\ r.cost = clean_price(ItemPrice(page, idx)).value]_vars

\* C16: a fetch that raises ends the background task with the table as it
\* was; from then on no pass is started, only API requests change the table,
\* and a GET answers from the table alone
C16_FetchFailureEndsTask ==
    [][/\ (pc = "threadpool" /\ pc' \notin {"threadpool", "iterating"})
            => (pc' = "dead" /\ exc' = "ConnectionError" /\ table' = table)
       /\ exc = "ConnectionError"
            => /\ pc' = "dead"
               /\ exc' = exc
               /\ passes' = passes
               /\ table' # table => (last = NoRequest /\ last' # NoRequest)
               /\ ApiStep("read")
                    => /\ last'.status = IF last'.id \in Ids(table) THEN 200 ELSE 404
                       /\ last'.result = { r \in table : r.id = last'.id }]_vars

\* after the fetch failure a GET has returned a record committed before it
C16_Witness ==
    /\ exc = "ConnectionError"
    /\ pc = "dead"
    /\ passes = 2
    /\ last.op = "read"
    /\ last.status = 200
    /\ last.result # {}
    /\ last.result \subseteq table

\* C17: the task has no terminal state: a pass, whatever its items, goes on
\* to the sleep
C17_PassEndsInSleep ==
    [][pc = "iterating" => (pc' \in {"iterating", "sleeping"} /\ exc' = "none")]_vars

\* C18: while a pass is in flight an API write can be served
C18_ApiServedDuringPass ==
    (pc = "iterating" /\ requests < MaxRequests) => ENABLED ApiCreate

\* C19: ingestion inserts a record only under a name that no record of the
\* table carries at that moment, and the number of records of a name rises
\* to two or more only by an API create or an API update that sets the name
C19_IngestionNeverDuplicates ==
    [][/\ IngestItem => \A r \in table' \ table : ByName(table, r.name) = {}
       /\ \A n \in Titles :
             (/\ Cardinality(ByName(table', n)) > Cardinality(ByName(table, n))
              /\ Cardinality(ByName(table', n)) >= 2)
             => \/ ApiStep("create")
                \/ (ApiStep("update") /\ "name" \in last'.body.set)]_vars

\* a pass has met, with a valid price, a title that two records carry
C19_Witness ==
    /\ pc = "iterating"
    /\ idx > 1
    /\ idx - 1 <= Len(page.prices)
    /\ clean_price(ItemPrice(page, idx - 1)).ok
    /\ Cardinality(ByName(table, page.names[idx - 1])) = 2

\* C20: a successful PUT leaves the record at the id of the path, returns it
\* with that id, and leaves the set of ids of the table as it was
C20_UpdateKeepsIdentity ==
    [][(ApiStep("update") /\ last'.status = 200)
       => /\ Ids(table') = Ids(table)
          /\ \A r \in last'.result : r.id = last'.id
          /\ \E r \in table' : r.id = last'.id]_vars

=============================================================================
